---- MODULE Spec2Model ----
(***************************************************************************)
(* Model of scripts/server.py of TrackerApp: the JT808 decoding helpers    *)
(* (unescape_jt, xor_checksum_ok, bcd6_to_timestr, parse_jt808) as         *)
(* operators over sequences of bytes, and run_server as a state machine.   *)
(***************************************************************************)
EXTENDS Integers, Sequences, FiniteSets, TLC

VARIABLES
    pc,             \* position of the harness, or of run_server in its loop
    arg,            \* input handed to the function under study
    mid,            \* intermediate value (bytes on the wire, frame under test)
    ret,            \* value returned by the function under study
    aux,            \* second value (the bit flipped, the comparison run)
    FLASK_FORWARD,  \* TRUE when the environment sets a forward target
    backlog,        \* connections queued on the listening socket
    nextId,         \* id the next connecting peer gets
    conn,           \* run_server.conn: id of the connection last accepted
    open,           \* accepted connections that are not closed
    peer,           \* bytes the peer of conn has still to send
    chunks,         \* run_server.chunks
    raw,            \* run_server.raw
    parsed,         \* run_server.parsed
    calls,          \* calls of write_found and forward_to_flask, in order
    fatal           \* exception that left run_server, "none" while it runs

srvVars == <<FLASK_FORWARD, backlog, nextId, conn, open, peer, chunks, raw,
             parsed, calls, fatal>>

fnVars == <<arg, mid, ret, aux>>

vars == <<pc, fnVars, srvVars>>

\* Optional[Dict]: None is the empty sequence, a dict d is <<d>>
None == <<>>

Some(d) == <<d>>

(***************************************************************************)
(* Bytes and integer helpers.                                              *)
(***************************************************************************)
Min(a, b) == IF a < b THEN a ELSE b

RECURSIVE XorBits(_, _, _)
XorBits(a, b, n) ==
    IF n = 0 THEN 0
    ELSE ((a + b) % 2) + 2 * XorBits(a \div 2, b \div 2, n - 1)

\* cs ^= b on bytes
Xor(a, b) == XorBits(a, b, 8)

\* x & mask for a mask that is a run of low bits (mask + 1 a power of two)
AndLow(x, mask) == x % (mask + 1)

\* bool(x & bit) for a single-bit mask
BitSet(x, bit) == (x \div bit) % 2 = 1

\* int.from_bytes(b, 'big')
RECURSIVE FromBytesBig(_)
FromBytesBig(b) ==
    IF Len(b) = 0 THEN 0
    ELSE 256 * FromBytesBig(SubSeq(b, 1, Len(b) - 1)) + b[Len(b)]

\* Python slice b[lo:hi] (0-based, half open, clipped to the length)
Slice(b, lo, hi) == SubSeq(b, Min(lo, Len(b)) + 1, Min(hi, Len(b)))

\* one step of the scan of bytes.replace at index i: a byte is copied, or on
\* a match rep is emitted and the two matched bytes are skipped
ReplaceStep(b, pat, rep, st, i) ==
    IF st.skip THEN [out |-> st.out, skip |-> FALSE]
    ELSE IF i < Len(b) /\ b[i] = pat[1] /\ b[i + 1] = pat[2]
         THEN [out |-> st.out \o rep, skip |-> TRUE]
         ELSE [out |-> Append(st.out, b[i]), skip |-> FALSE]

\* the steps at lo..hi in order from the state st0: the first half of the
\* range (bound to st as a value), then the second
RECURSIVE ReplaceScan(_, _, _, _, _, _)
ReplaceScan(b, pat, rep, lo, hi, st0) ==
    IF lo > hi THEN st0
    ELSE IF lo = hi THEN ReplaceStep(b, pat, rep, st0, lo)
    ELSE LET m == (lo + hi) \div 2
         IN CHOOSE r \in {ReplaceScan(b, pat, rep, m + 1, hi, st) :
                              st \in {ReplaceScan(b, pat, rep, lo, m, st0)}} : TRUE

\* bytes.replace(pat, rep) for a two-byte pattern: leftmost matches,
\* non-overlapping, the output is not scanned again
Replace2(b, pat, rep) ==
    ReplaceScan(b, pat, rep, 1, Len(b), [out |-> <<>>, skip |-> FALSE]).out

\* bytes.split(sep) for a one-byte separator: the runs between the
\* separators, in order, empty runs included
SplitOn(b, sep) ==
    LET cuts == {0, Len(b) + 1} \cup {i \in 1..Len(b) : b[i] = sep}
        nth(k) == CHOOSE c \in cuts : Cardinality({x \in cuts : x < c}) = k - 1
    IN [k \in 1..(Cardinality(cuts) - 1) |->
           SubSeq(b, nth(k) + 1, nth(k + 1) - 1)]

(***************************************************************************)
(* JT808 parsing helpers.                                                  *)
(***************************************************************************)
unescape_jt(b) ==
    Replace2(Replace2(b, <<125, 1>>, <<125>>), <<125, 2>>, <<126>>)

\* "for b in body[lo..hi]: cs ^= b" from cs0, in order: the first half of
\* the range (bound to cs as a value), then the second
RECURSIVE XorScan(_, _, _, _)
XorScan(body, lo, hi, cs0) ==
    IF lo > hi THEN cs0
    ELSE IF lo = hi THEN Xor(cs0, body[lo])
    ELSE LET m == (lo + hi) \div 2
         IN CHOOSE r \in {XorScan(body, m + 1, hi, cs) :
                              cs \in {XorScan(body, lo, m, cs0)}} : TRUE

\* cs = 0; for b in body: cs ^= b
XorFold(body) == XorScan(body, 1, Len(body), 0)

\* xor_checksum_ok with the loop starting at the second byte of body
xor_checksum_skips_first(frame_no_delims) ==
    IF Len(frame_no_delims) < 2 THEN FALSE
    ELSE LET body == SubSeq(frame_no_delims, 2, Len(frame_no_delims) - 1)
             chksum == frame_no_delims[Len(frame_no_delims)]
         IN XorFold(body) = chksum

xor_checksum_ok(frame_no_delims) ==
    IF Len(frame_no_delims) < 2 THEN FALSE
    ELSE LET body == SubSeq(frame_no_delims, 1, Len(frame_no_delims) - 1)
             chksum == frame_no_delims[Len(frame_no_delims)]
         IN XorFold(body) = chksum

(***************************************************************************)
(* Text: a Python str is a sequence of one-character strings until it is   *)
(* returned, when it becomes a TLA+ string.                                *)
(***************************************************************************)
HexChars == <<"0", "1", "2", "3", "4", "5", "6", "7", "8", "9",
              "a", "b", "c", "d", "e", "f">>

DecChars == SubSeq(HexChars, 1, 10)

\* str(n) for an int n >= 0
RECURSIVE PyStr(_)
PyStr(n) ==
    IF n < 10 THEN <<DecChars[n + 1]>>
    ELSE PyStr(n \div 10) \o <<DecChars[(n % 10) + 1]>>

IsDecChar(c) == \E d \in 1..10 : DecChars[d] = c

DecVal(c) == (CHOOSE d \in 1..10 : DecChars[d] = c) - 1

\* int(s) raises ValueError unless s is a non-empty run of decimal digits
IntRaises(s) == Len(s) = 0 \/ \E i \in 1..Len(s) : ~IsDecChar(s[i])

\* int(s) for a run of decimal digits
RECURSIVE PyInt(_)
PyInt(s) ==
    IF Len(s) = 0 THEN 0
    ELSE 10 * PyInt(SubSeq(s, 1, Len(s) - 1)) + DecVal(s[Len(s)])

\* f"{n:0<width>d}"
RECURSIVE ZeroPad(_, _)
ZeroPad(s, width) == IF Len(s) >= width THEN s ELSE ZeroPad(<<"0">> \o s, width)

FmtD(n, width) == ZeroPad(PyStr(n), width)

\* hex(n) without the 0x prefix
RECURSIVE HexDigits(_)
HexDigits(n) ==
    IF n < 16 THEN <<HexChars[n + 1]>>
    ELSE HexDigits(n \div 16) \o <<HexChars[(n % 16) + 1]>>

\* bytes.hex(): two hex digits per byte
BytesHex(b) ==
    [i \in 1..(2 * Len(b)) |->
        IF i % 2 = 1 THEN HexChars[(b[(i + 1) \div 2] \div 16) + 1]
        ELSE HexChars[(b[i \div 2] % 16) + 1]]

\* the characters of s joined into one string
RECURSIVE Text(_)
Text(s) ==
    IF Len(s) = 0 THEN ""
    ELSE IF Len(s) = 1 THEN s[1]
    ELSE LET h == Len(s) \div 2
         IN Text(SubSeq(s, 1, h)) \o Text(SubSeq(s, h + 1, Len(s)))

bcd6_to_timestr(b) ==
    IF Len(b) # 6 THEN ""
    ELSE LET hi(byte) == (byte \div 16) % 16
             lo(byte) == byte % 16
             \* digits[2k] = str(hi), digits[2k+1] = str(lo) of byte k
             digits == [i \in 1..12 |->
                          IF i % 2 = 1 THEN PyStr(hi(b[(i + 1) \div 2]))
                          ELSE PyStr(lo(b[i \div 2]))]
             f(k) == digits[2 * k - 1] \o digits[2 * k]
         IN IF \E k \in 1..6 : IntRaises(f(k)) THEN ""
            ELSE LET yy == PyInt(f(1))
                     mm == PyInt(f(2))
                     dd == PyInt(f(3))
                     hh == PyInt(f(4))
                     mi == PyInt(f(5))
                     ss == PyInt(f(6))
                     year == 2000 + yy
                 IN Text(FmtD(year, 4) \o <<"-">> \o FmtD(mm, 2) \o <<"-">>
                         \o FmtD(dd, 2) \o <<" ">> \o FmtD(hh, 2) \o <<":">>
                         \o FmtD(mi, 2) \o <<":">> \o FmtD(ss, 2))

\* msg_props & 0x03FF
body_len(msg_props) == AndLow(msg_props, 1023)

\* header_len without the subpackage branch
header_len_fixed(msg_props) == 12

\* 12, plus 4 when bit 13 (0x2000) of msg_props is set
header_len(msg_props) == IF BitSet(msg_props, 8192) THEN 12 + 4 ELSE 12

\* the length check one byte too lax
body_too_short_27(body) == Len(body) < 27

\* "if len(body) < 28: continue"
body_too_short(body) == Len(body) < 28

\* one pass of the loop "for p in parts": None to go on to the next part
\* (continue, or the end of the loop body), or the dict returned
parse_jt808_part(p, raw_bytes) ==
    IF Len(p) = 0 THEN None
    ELSE LET unescaped == unescape_jt(p) IN
    IF Len(unescaped) < 5 THEN None
    ELSE IF ~xor_checksum_ok(unescaped) THEN None
    ELSE LET payload == SubSeq(unescaped, 1, Len(unescaped) - 1) IN
    IF Len(payload) < 12 THEN None
    ELSE LET msg_id == FromBytesBig(Slice(payload, 0, 2))
             msg_props == FromBytesBig(Slice(payload, 2, 4))
             blen == body_len(msg_props)
             hlen == header_len(msg_props)
         IN
    IF Len(payload) < hlen + blen THEN None
    ELSE LET body == Slice(payload, hlen, hlen + blen) IN
    IF msg_id # 512 THEN None
    ELSE IF body_too_short(body) THEN None
    ELSE LET lat_raw == FromBytesBig(Slice(body, 8, 12))
             lon_raw == FromBytesBig(Slice(body, 12, 16))
             speed_raw == FromBytesBig(Slice(body, 18, 20))
         IN Some([protocol |-> "jt808",
                  msg_id |-> Text(<<"0", "x">> \o HexDigits(msg_id)),
                  alarm |-> FromBytesBig(Slice(body, 0, 4)),
                  status |-> FromBytesBig(Slice(body, 4, 8)),
                  \* lat_raw / 1e6 as <<whole degrees, millionths>>
                  lat |-> <<lat_raw \div 1000000, lat_raw % 1000000>>,
                  lon |-> <<lon_raw \div 1000000, lon_raw % 1000000>>,
                  alt |-> FromBytesBig(Slice(body, 16, 18)),
                  speed_raw |-> speed_raw,
                  \* round(speed_raw / 10.0, 1) as <<whole km/h, tenths>>
                  speed_kmh |-> <<speed_raw \div 10, speed_raw % 10>>,
                  direction |-> FromBytesBig(Slice(body, 20, 22)),
                  timestamp |-> bcd6_to_timestr(Slice(body, 22, 28)),
                  raw_preview |-> Text(BytesHex(Slice(raw_bytes, 0, 200)))])

\* the loop keeping the last record instead of returning the first
RECURSIVE ParsePartsLast(_, _, _)
ParsePartsLast(parts, i, raw_bytes) ==
    IF i > Len(parts) THEN None
    ELSE LET later == ParsePartsLast(parts, i + 1, raw_bytes)
         IN IF later = None THEN parse_jt808_part(parts[i], raw_bytes) ELSE later

\* "for p in parts" from part i on: the first dict returned, None at the end
RECURSIVE ParseParts(_, _, _)
ParseParts(parts, i, raw_bytes) ==
    IF i > Len(parts) THEN None
    ELSE LET r == parse_jt808_part(parts[i], raw_bytes)
         IN IF r = None THEN ParseParts(parts, i + 1, raw_bytes) ELSE r

parse_jt808(raw_bytes) == ParseParts(SplitOn(raw_bytes, 126), 1, raw_bytes)

(***************************************************************************)
(* The terminal's side of the wire format: what a device sends.            *)
(***************************************************************************)
\* 0x7E -> 0x7D 0x02, 0x7D -> 0x7D 0x01, byte by byte
RECURSIVE escape_wire(_)
escape_wire(s) ==
    IF Len(s) = 0 THEN <<>>
    ELSE IF Len(s) = 1
         THEN (IF s[1] = 126 THEN <<125, 2>>
               ELSE IF s[1] = 125 THEN <<125, 1>>
               ELSE s)
    ELSE LET h == Len(s) \div 2
         IN escape_wire(SubSeq(s, 1, h)) \o escape_wire(SubSeq(s, h + 1, Len(s)))

\* bit k of the XOR of all bytes is the parity of the bytes that have bit k
Pow2(k) == CASE k = 0 -> 1 [] k = 1 -> 2 [] k = 2 -> 4 [] k = 3 -> 8
             [] k = 4 -> 16 [] k = 5 -> 32 [] k = 6 -> 64 [] k = 7 -> 128

Bit(x, k) == (x \div Pow2(k)) % 2

RECURSIVE SumBits(_, _)
SumBits(ks, f) ==
    IF ks = {} THEN 0
    ELSE LET k == CHOOSE x \in ks : TRUE
         IN f[k] * Pow2(k) + SumBits(ks \ {k}, f)

XorOfAll(p) ==
    SumBits(0..7, [k \in 0..7 |->
                     Cardinality({i \in 1..Len(p) : Bit(p[i], k) = 1}) % 2])

\* the byte b with bit k flipped
FlipBit(b, k) == IF Bit(b, k) = 1 THEN b - Pow2(k) ELSE b + Pow2(k)

\* n as `width` big-endian bytes
RECURSIVE ToBytesBig(_, _)
ToBytesBig(n, width) ==
    IF width = 0 THEN <<>>
    ELSE ToBytesBig(n \div 256, width - 1) \o <<n % 256>>

Take(s, n) == SubSeq(s, 1, Min(n, Len(s)))

\* the 28-byte location body of a report
LocBody(loc) ==
    ToBytesBig(loc.alarm, 4) \o ToBytesBig(loc.status, 4)
    \o ToBytesBig(loc.lat_raw, 4) \o ToBytesBig(loc.lon_raw, 4)
    \o ToBytesBig(loc.alt, 2) \o ToBytesBig(loc.speed_raw, 2)
    \o ToBytesBig(loc.direction, 2) \o loc.time

\* msg_props of a frame: declared body length, subpackage bit, other bits
Props(d) == d.decl + (IF d.sub THEN 8192 ELSE 0) + d.flags

TerminalId == <<1, 35, 69, 103, 137, 1>>

\* header, body and trailing bytes of the frame d, cut to d.keep bytes (1000
\* keeps them all)
Payload(d) ==
    Take(ToBytesBig(d.msg_id, 2) \o ToBytesBig(Props(d), 2) \o TerminalId
         \o <<0, 1>> \o (IF d.sub THEN <<0, 2, 0, 1>> ELSE <<>>)
         \o Take(LocBody(d.loc) \o d.tail, d.decl) \o d.pad,
         d.keep)

\* the unescaped frame: payload and checksum byte (wrong when d.badsum)
Frame(d) ==
    Payload(d) \o <<IF d.badsum THEN FlipBit(XorOfAll(Payload(d)), 0)
                    ELSE XorOfAll(Payload(d))>>

Wire(d) == <<126>> \o escape_wire(Frame(d)) \o <<126>>

RECURSIVE Stream(_)
Stream(ds) == IF Len(ds) = 0 THEN <<>> ELSE Wire(ds[1]) \o Stream(Tail(ds))

(***************************************************************************)
(* Bounds and input sets.                                                  *)
(***************************************************************************)
MaxEscLen == 4

MaxSumLen == 3

MaxFrames == 2

EscAlphabet == {1, 2, 65, 125, 126}

SumAlphabet == {0, 1, 125, 128, 255}

RECURSIVE SeqsUpTo(_, _)
SeqsUpTo(S, n) ==
    IF n = 0 THEN {<<>>}
    ELSE LET shorter == SeqsUpTo(S, n - 1)
         IN shorter \cup {Append(q, x) : q \in {t \in shorter : Len(t) = n - 1}, x \in S}

\* Scenario A of the specification: 2025-01-02 03:04:05, 51.4416 N 5.4697 E
Loc1 == [alarm |-> 0, status |-> 0, lat_raw |-> 51441600, lon_raw |-> 5469700,
         alt |-> 10, speed_raw |-> 50, direction |-> 90,
         time |-> <<37, 1, 2, 3, 4, 5>>]

\* a time field with nibbles above 9 (0xA5, 0x1B); bytes 0x7E and 0x7D inside
Loc2 == [alarm |-> 1, status |-> 3, lat_raw |-> 52370216, lon_raw |-> 4895168,
         alt |-> 126, speed_raw |-> 125, direction |-> 1,
         time |-> <<165, 27, 2, 3, 4, 5>>]

\* all nibbles decimal, month 13 and day 32
Loc3 == [alarm |-> 2, status |-> 786435, lat_raw |-> 1000001, lon_raw |-> 179999999,
         alt |-> 65535, speed_raw |-> 1234, direction |-> 359,
         time |-> <<37, 19, 50, 35, 89, 89>>]

\* the bytes 0x7D 0x02 next to each other (alt 0x007D, speed 0x0201)
Loc4 == [alarm |-> 4, status |-> 0, lat_raw |-> 51441600, lon_raw |-> 5469700,
         alt |-> 125, speed_raw |-> 513, direction |-> 90,
         time |-> <<37, 1, 2, 3, 4, 5>>]

D0 == [msg_id |-> 512, sub |-> FALSE, decl |-> 28, flags |-> 0, loc |-> Loc1,
       tail |-> <<>>, pad |-> <<>>, keep |-> 1000, badsum |-> FALSE]

FrameKinds ==
    { D0,
      [D0 EXCEPT !.loc = Loc2],
      [D0 EXCEPT !.loc = Loc3, !.sub = TRUE],
      [D0 EXCEPT !.loc = Loc4],
      [D0 EXCEPT !.badsum = TRUE],
      [D0 EXCEPT !.msg_id = 256],
      [D0 EXCEPT !.decl = 27],
      [D0 EXCEPT !.decl = 30, !.tail = <<9, 9>>, !.loc = Loc3],
      [D0 EXCEPT !.flags = 1024, !.pad = <<7>>],
      [D0 EXCEPT !.keep = 32],
      [D0 EXCEPT !.keep = 4],
      [D0 EXCEPT !.keep = 3] }

SrvInit ==
    /\ FLASK_FORWARD = FALSE
    /\ backlog = <<>>
    /\ nextId = 1
    /\ conn = 0
    /\ open = {}
    /\ peer = <<>>
    /\ chunks = <<>>
    /\ raw = <<>>
    /\ parsed = None
    /\ calls = <<>>
    /\ fatal = "none"

(***************************************************************************)
(* SpecUnescape: a byte sequence is escaped by the terminal and unescaped  *)
(* by unescape_jt.                                                         *)
(***************************************************************************)
InitUnescape ==
    /\ pc = "esc_start"
    /\ arg \in SeqsUpTo(EscAlphabet, MaxEscLen)
    /\ mid = <<>>
    /\ ret = <<>>
    /\ aux = <<>>
    /\ SrvInit

EscapeOnWire ==
    /\ pc = "esc_start"
    /\ mid' = escape_wire(arg)
    /\ pc' = "esc_wire"
    /\ UNCHANGED <<arg, ret, aux, srvVars>>

Unescape ==
    /\ pc = "esc_wire"
    /\ ret' = unescape_jt(mid)
    /\ pc' = "esc_done"
    /\ UNCHANGED <<arg, mid, aux, srvVars>>

NextUnescape == EscapeOnWire \/ Unescape

SpecUnescape == InitUnescape /\ [][NextUnescape]_vars

(***************************************************************************)
(* SpecChecksum: a payload gets its XOR checksum appended, one payload bit *)
(* may be flipped, and xor_checksum_ok judges the frame.                   *)
(***************************************************************************)
InitChecksum ==
    /\ pc = "sum_start"
    /\ arg \in SeqsUpTo(SumAlphabet, MaxSumLen)
    /\ mid = <<>>
    /\ ret = FALSE
    /\ aux = <<>>
    /\ SrvInit

AppendChecksum ==
    /\ pc = "sum_start"
    /\ mid' = Append(arg, XorOfAll(arg))
    /\ pc' = "sum_framed"
    /\ UNCHANGED <<arg, ret, aux, srvVars>>

FlipPayloadBit ==
    /\ pc = "sum_framed"
    /\ \E i \in 1..Len(arg), k \in 0..7 :
          /\ mid' = [mid EXCEPT ![i] = FlipBit(mid[i], k)]
          /\ aux' = <<i, k>>
    /\ pc' = "sum_flipped"
    /\ UNCHANGED <<arg, ret, srvVars>>

Validate ==
    /\ pc \in {"sum_framed", "sum_flipped"}
    /\ ret' = xor_checksum_ok(mid)
    /\ pc' = "sum_done"
    /\ UNCHANGED <<arg, mid, aux, srvVars>>

NextChecksum == AppendChecksum \/ FlipPayloadBit \/ Validate

SpecChecksum == InitChecksum /\ [][NextChecksum]_vars

(***************************************************************************)
(* SpecParse: a terminal sends up to MaxFrames frames in one buffer and    *)
(* parse_jt808 reads it; the same frames with the subpackage flag toggled  *)
(* are parsed for comparison.                                              *)
(***************************************************************************)
Toggled(d) == [d EXCEPT !.sub = ~d.sub]

InitParse ==
    /\ pc = "parse_start"
    /\ arg \in SeqsUpTo(FrameKinds, MaxFrames)
    /\ mid = <<>>
    /\ ret = None
    /\ aux = None
    /\ SrvInit

Send ==
    /\ pc = "parse_start"
    /\ mid' = Stream(arg)
    /\ pc' = "parse_sent"
    /\ UNCHANGED <<arg, ret, aux, srvVars>>

Parse ==
    /\ pc = "parse_sent"
    /\ ret' = parse_jt808(mid)
    /\ pc' = "parse_done"
    /\ UNCHANGED <<arg, mid, aux, srvVars>>

ParseToggled ==
    /\ pc = "parse_done"
    /\ aux' = parse_jt808(Stream([i \in 1..Len(arg) |-> Toggled(arg[i])]))
    /\ pc' = "parse_compared"
    /\ UNCHANGED <<arg, mid, ret, srvVars>>

NextParse == Send \/ Parse \/ ParseToggled

SpecParse == InitParse /\ [][NextParse]_vars

(***************************************************************************)
(* The fallback ASCII parser.  Text is a sequence of code points.          *)
(***************************************************************************)
\* raw.decode('utf-8', errors='replace') for buffers in which no byte above
\* 0x7F starts a well-formed sequence: each such byte becomes U+FFFD
decode_replace(b) == [i \in 1..Len(b) |-> IF b[i] < 128 THEN b[i] ELSE 65533]

\* the characters str.strip() and \s take for whitespace, below U+0080
Whitespace == {9, 10, 11, 12, 13, 28, 29, 30, 31, 32}

strip(t) ==
    LET inner == {i \in 1..Len(t) : t[i] \notin Whitespace}
    IN IF inner = {} THEN <<>>
       ELSE SubSeq(t, CHOOSE i \in inner : \A j \in inner : i <= j,
                      CHOOSE i \in inner : \A j \in inner : i >= j)

DigitCodes == 48..57

\* [,;\s]
SepCodes == {44, 59} \cup Whitespace

\* the last index of the run of characters of S that starts at i (i - 1 when
\* t[i] is not in S): how far a greedy \d+ or [,;\s]+ reaches
RunEnd(t, i, S) ==
    CHOOSE j \in (i - 1)..Len(t) :
        /\ \A k \in i..j : t[k] \in S
        /\ j = Len(t) \/ t[j + 1] \notin S

\* -?\d+\.\d+ from index i: <<TRUE, end of the integer part, end of the
\* fraction>>, or <<FALSE>>
NumberAt(t, i) ==
    IF i > Len(t) THEN <<FALSE>>
    ELSE LET a == IF t[i] = 45 THEN i + 1 ELSE i
             e == RunEnd(t, a, DigitCodes)
         IN IF e < a \/ e + 1 > Len(t) THEN <<FALSE>>
            ELSE IF t[e + 1] # 46 THEN <<FALSE>>
            ELSE LET f == RunEnd(t, e + 2, DigitCodes)
                 IN IF f < e + 2 THEN <<FALSE>> ELSE <<TRUE, e, f>>

\* (-?\d+\.\d+)[,;\s]+(-?\d+\.\d+) from index i: the two groups, or <<>>
MatchAt(t, i) ==
    LET n1 == NumberAt(t, i)
    IN IF ~n1[1] THEN <<>>
       ELSE LET sepEnd == RunEnd(t, n1[3] + 1, SepCodes)
                n2 == NumberAt(t, sepEnd + 1)
            IN IF sepEnd < n1[3] + 1 \/ ~n2[1] THEN <<>>
               ELSE <<SubSeq(t, i, n1[3]), SubSeq(t, sepEnd + 1, n2[3])>>

\* re.search: the match at the leftmost index that has one
re_search(t) ==
    LET hits == {i \in 1..Len(t) : MatchAt(t, i) # <<>>}
    IN IF hits = {} THEN <<>>
       ELSE MatchAt(t, CHOOSE i \in hits : \A j \in hits : i <= j)

RECURSIVE Gcd(_, _)
Gcd(x, y) == IF y = 0 THEN x ELSE Gcd(y, x % y)

RECURSIVE Pow10(_)
Pow10(n) == IF n = 0 THEN 1 ELSE 10 * Pow10(n - 1)

RECURSIVE DigitsVal(_)
DigitsVal(t) ==
    IF Len(t) = 0 THEN 0
    ELSE 10 * DigitsVal(SubSeq(t, 1, Len(t) - 1)) + (t[Len(t)] - 48)

\* float(g) of a matched group, as the fraction <<numerator, denominator>>
\* in lowest terms
float(g) ==
    LET neg == g[1] = 45
        body == IF neg THEN Tail(g) ELSE g
        dot == CHOOSE i \in 1..Len(body) : body[i] = 46
        frac == SubSeq(body, dot + 1, Len(body))
        num == DigitsVal(SubSeq(body, 1, dot - 1) \o frac)
        den == Pow10(Len(frac))
        d == Gcd(num, den)
    IN <<(IF neg THEN 0 - 1 ELSE 1) * (num \div d), den \div d>>

\* the JSON documents the peers of the model send, and what json.loads
\* gives for them: {"lat": 1.5, "lon": 2.5}
JsonText ==
    <<123, 34, 108, 97, 116, 34, 58, 32, 49, 46, 53, 44, 32, 34, 108, 111,
      110, 34, 58, 32, 50, 46, 53, 125>>

\* json.loads(txt) when it is a dict with "lat" and "lon"; for every other
\* text of the model json.loads raises, which the caller swallows
json_loads_dict(txt) ==
    IF txt = JsonText THEN Some([lat |-> <<3, 2>>, lon |-> <<5, 2>>])
    ELSE None

try_parse_coords_ascii(txt) ==
    IF json_loads_dict(txt) # None THEN json_loads_dict(txt)
    ELSE LET m == re_search(txt)
         IN IF m # <<>> THEN Some([lat |-> float(m[1]), lon |-> float(m[2])])
            ELSE None

(***************************************************************************)
(* run_server.                                                             *)
(***************************************************************************)
MaxConns == 2

\* listen(5)
Backlog == 5

\* what a peer sends on one connection
PeerInputs ==
    { <<>>,
      <<53, 49, 46, 52, 52, 44, 53, 46, 52, 54>>,
      JsonText,
      <<104, 101, 108, 108, 111, 32, 49, 50, 32, 51, 46, 10>>,
      Wire(D0),
      Wire([D0 EXCEPT !.badsum = TRUE]),
      Stream(<<[D0 EXCEPT !.msg_id = 256], [D0 EXCEPT !.loc = Loc3, !.sub = TRUE]>>) }

\* the sizes conn.recv(4096) may return of the bytes p still to come: all
\* of them, or a first segment of 24
RecvSizes(p) == {n \in {Len(p), 24} : 1 <= n /\ n <= Len(p) /\ n <= 4096}

\* b"".join(chunks)
RECURSIVE Join(_)
Join(cs) == IF Len(cs) = 0 THEN <<>> ELSE cs[1] \o Join(Tail(cs))

\* lines 232-252: the value of parsed after both parsers had their turn
ParsedOf(r) ==
    LET txt == strip(decode_replace(r))
        ascii == IF Len(txt) > 0 THEN try_parse_coords_ascii(txt) ELSE None
    IN IF ascii = None /\ Len(r) > 0 THEN parse_jt808(r) ELSE ascii

Init ==
    /\ pc = "bind"
    /\ arg = <<>>
    /\ mid = <<>>
    /\ ret = <<>>
    /\ aux = <<>>
    /\ FLASK_FORWARD \in BOOLEAN
    /\ backlog = <<>>
    /\ nextId = 1
    /\ conn = 0
    /\ open = {}
    /\ peer = <<>>
    /\ chunks = <<>>
    /\ raw = <<>>
    /\ parsed = None
    /\ calls = <<>>
    /\ fatal = "none"

\* s.bind and s.listen: an OSError leaves run_server and ends in __main__
Bind ==
    /\ pc = "bind"
    /\ \E ok \in BOOLEAN :
          IF ok THEN pc' = "accept" /\ fatal' = fatal
          ELSE pc' = "halted" /\ fatal' = "bind: OSError"
    /\ UNCHANGED <<fnVars, FLASK_FORWARD, backlog, nextId, conn, open, peer,
                   chunks, raw, parsed, calls>>

\* a terminal connects: the kernel queues it until the loop accepts it
Connect ==
    /\ pc \notin {"bind", "halted"}
    /\ nextId <= MaxConns
    /\ Len(backlog) < Backlog
    /\ backlog' = Append(backlog, nextId)
    /\ nextId' = nextId + 1
    /\ UNCHANGED <<pc, fnVars, FLASK_FORWARD, conn, open, peer, chunks, raw,
                   parsed, calls, fatal>>

\* accept as a server handing each connection to a thread would do it:
\* also while the previous connection is still being read
AcceptWhileReading ==
    /\ pc \in {"accept", "recv"}
    /\ backlog # <<>>
    /\ conn' = Head(backlog)
    /\ backlog' = Tail(backlog)
    /\ open' = open \cup {Head(backlog)}
    /\ peer' \in PeerInputs
    /\ chunks' = <<>>
    /\ raw' = <<>>
    /\ parsed' = None
    /\ pc' = "recv"
    /\ UNCHANGED <<fnVars, FLASK_FORWARD, nextId, calls, fatal>>

\* conn, addr = s.accept(); conn.settimeout(5.0); chunks = [].  raw and
\* parsed of the previous pass are dead here (both are assigned, at lines 232
\* and 240, before they are read) and are cleared with chunks
Accept ==
    /\ pc = "accept"
    /\ backlog # <<>>
    /\ conn' = Head(backlog)
    /\ backlog' = Tail(backlog)
    /\ open' = open \cup {Head(backlog)}
    /\ peer' \in PeerInputs
    /\ chunks' = <<>>
    /\ raw' = <<>>
    /\ parsed' = None
    /\ pc' = "recv"
    /\ UNCHANGED <<fnVars, FLASK_FORWARD, nextId, calls, fatal>>

\* data = conn.recv(4096) returns bytes: chunks.append(data)
RecvData ==
    /\ pc = "recv"
    /\ peer # <<>>
    /\ \E n \in RecvSizes(peer) :
          /\ chunks' = Append(chunks, SubSeq(peer, 1, n))
          /\ peer' = SubSeq(peer, n + 1, Len(peer))
    /\ UNCHANGED <<pc, fnVars, FLASK_FORWARD, backlog, nextId, conn, open,
                   raw, parsed, calls, fatal>>

\* conn.recv returns b"": the peer has sent everything and closed
RecvEof ==
    /\ pc = "recv"
    /\ peer = <<>>
    /\ pc' = "parse"
    /\ UNCHANGED <<fnVars, srvVars>>

\* conn.recv raises socket.timeout after 5 idle seconds: pass
RecvTimeout ==
    /\ pc = "recv"
    /\ peer' = <<>>
    /\ pc' = "parse"
    /\ UNCHANGED <<fnVars, FLASK_FORWARD, backlog, nextId, conn, open, chunks,
                   raw, parsed, calls, fatal>>

\* conn.recv raises another OSError (connection reset): nothing in
\* run_server catches it, the with blocks close conn and the listening
\* socket, and __main__ logs "fatal server error"
RecvError ==
    /\ pc = "recv"
    /\ open' = open \ {conn}
    /\ backlog' = <<>>
    /\ peer' = <<>>
    /\ fatal' = "recv: ConnectionResetError"
    /\ pc' = "halted"
    /\ UNCHANGED <<fnVars, FLASK_FORWARD, nextId, conn, chunks, raw, parsed,
                   calls>>

\* raw = b"".join(chunks) and the two parsers
ParseRaw ==
    /\ pc = "parse"
    /\ raw' = Join(chunks)
    /\ parsed' = ParsedOf(raw')
    /\ pc' = IF parsed' # None THEN "persist" ELSE "close"
    /\ UNCHANGED <<fnVars, FLASK_FORWARD, backlog, nextId, conn, open, peer,
                   chunks, calls, fatal>>

\* "if FLASK_FORWARD:" after the try block around write_found
AfterWrite == IF FLASK_FORWARD THEN "forward" ELSE "close"

\* write_found without the two try blocks: the write's exception leaves
\* run_server
WriteFoundUncaught(outcome) ==
    IF outcome = "write error"
    THEN [pc |-> "halted", fatal |-> "write_found: OSError", open |-> open \ {conn}]
    ELSE [pc |-> AfterWrite, fatal |-> fatal, open |-> open]

\* where the loop is after write_found(parsed) ended with `outcome`
WriteFoundEnds(outcome) == [pc |-> AfterWrite, fatal |-> fatal, open |-> open]

\* try: write_found(parsed) except Exception: log.  safe_write_json returns
\* True ("written") or catches the write's exception and returns False
\* ("write error"); the copy of parsed that is written gets a server_ts,
\* which the model leaves out
WriteFound ==
    /\ pc = "persist"
    /\ \E outcome \in {"written", "write error"} :
          /\ calls' = Append(calls, [op |-> "write_found", conn |-> conn,
                                     rec |-> parsed[1], outcome |-> outcome])
          /\ pc' = WriteFoundEnds(outcome).pc
          /\ fatal' = WriteFoundEnds(outcome).fatal
          /\ open' = WriteFoundEnds(outcome).open
    /\ UNCHANGED <<fnVars, FLASK_FORWARD, backlog, nextId, conn, peer, chunks,
                   raw, parsed>>

\* forward_to_flask tried again after a failure
AfterForwardRetry(outcome) == IF outcome = "forward failed" THEN "forward" ELSE "close"

\* where the loop goes after forward_to_flask, whatever its outcome
AfterForward(outcome) == "close"

\* if FLASK_FORWARD: forward_to_flask(parsed): one requests.post, whose
\* exception is logged
ForwardToFlask ==
    /\ pc = "forward"
    /\ \E outcome \in {"forwarded", "forward failed"} :
          /\ calls' = Append(calls, [op |-> "forward_to_flask", conn |-> conn,
                                     rec |-> parsed[1], outcome |-> outcome])
          /\ pc' = AfterForward(outcome)
    /\ UNCHANGED <<fnVars, FLASK_FORWARD, backlog, nextId, conn, open, peer,
                   chunks, raw, parsed, fatal>>

\* the end of "with conn": the connection is closed, back to s.accept()
Close ==
    /\ pc = "close"
    /\ open' = open \ {conn}
    /\ pc' = "accept"
    /\ UNCHANGED <<fnVars, FLASK_FORWARD, backlog, nextId, conn, peer, chunks,
                   raw, parsed, calls, fatal>>

Next ==
    \/ Bind
    \/ Connect
    \/ Accept
    \/ RecvData
    \/ RecvEof
    \/ RecvTimeout
    \/ RecvError
    \/ ParseRaw
    \/ WriteFound
    \/ ForwardToFlask
    \/ Close

Spec == Init /\ [][Next]_vars

(***************************************************************************)
(* Properties of the decoding helpers.                                     *)
(***************************************************************************)
\* the fields of a record other than time, protocol and previews
RecFields(r) ==
    <<r.alarm, r.status, r.lat, r.lon, r.alt, r.speed_raw, r.speed_kmh,
      r.direction>>

\* the same fields as the terminal put them in the body
SentFields(loc) ==
    <<loc.alarm, loc.status,
      <<loc.lat_raw \div 1000000, loc.lat_raw % 1000000>>,
      <<loc.lon_raw \div 1000000, loc.lon_raw % 1000000>>,
      loc.alt, loc.speed_raw, <<loc.speed_raw \div 10, loc.speed_raw % 10>>,
      loc.direction>>

HasBadNibble(time) ==
    \E i \in 1..Len(time) : (time[i] \div 16) > 9 \/ (time[i] % 16) > 9

\* "20YY-MM-DD hh:mm:ss" of a time field whose nibbles are all decimal
SentTime(time) ==
    LET n(i) == 10 * (time[i] \div 16) + (time[i] % 16)
    IN Text(FmtD(2000 + n(1), 4) \o <<"-">> \o FmtD(n(2), 2) \o <<"-">>
            \o FmtD(n(3), 2) \o <<" ">> \o FmtD(n(4), 2) \o <<":">>
            \o FmtD(n(5), 2) \o <<":">> \o FmtD(n(6), 2))

\* the acceptance conditions on an unescaped frame f, checksum byte included
Gate(f) ==
    /\ Len(f) >= 13
    /\ f[Len(f)] = XorOfAll(SubSeq(f, 1, Len(f) - 1))
    /\ LET props == 256 * f[3] + f[4]
           hl == IF (props \div 8192) % 2 = 1 THEN 16 ELSE 12
           bl == props % 1024
       IN /\ Len(f) - 1 >= hl + bl
          /\ 256 * f[1] + f[2] = 512
          /\ bl >= 28

\* the bytes of frame k of the buffer between its delimiters, as received
Between(k) == escape_wire(Frame(arg[k]))

Passes(k) == Gate(unescape_jt(Between(k)))

\* C1: escaping any byte sequence for the wire and unescaping it with
\* unescape_jt gives the sequence back.
C1_RoundTrip == pc = "esc_done" => ret = arg

\* C2: xor_checksum_ok accepts every payload (the empty one too) followed by
\* the XOR of its bytes, and rejects it after one payload bit is flipped.
C2_AcceptsAllRejectsFlipped == pc = "sum_done" => (ret <=> aux = <<>>)

\* C2 (amended): xor_checksum_ok accepts every non-empty payload followed by
\* the XOR of its bytes, rejects the one-byte frame of the empty payload, and
\* rejects an accepted frame after one payload bit is flipped.
C2_AcceptsNonEmptyRejectsFlipped ==
    pc = "sum_done" => (ret <=> (aux = <<>> /\ Len(arg) >= 1))

C2_Witness ==
    /\ pc = "sum_done"
    /\ Len(arg) >= 2
    /\ aux # <<>>
    /\ ret = FALSE

\* C3: a location record whose time field has a nibble above 9 carries an
\* empty timestamp and the other fields as sent; with all nibbles decimal the
\* timestamp is the formatted date-time, whatever the calendar says.
C3_BadNibbleEmptyTimestamp ==
    (pc = "parse_done" /\ Len(arg) = 1 /\ ret # None) =>
        /\ RecFields(ret[1]) = SentFields(arg[1].loc)
        /\ ret[1].timestamp = (IF HasBadNibble(arg[1].loc.time) THEN ""
                               ELSE SentTime(arg[1].loc.time))

\* C5: parse_jt808 returns the record of the earliest frame of the buffer
\* that passes the gate, whatever fails before it and whatever follows it,
\* and None only when no frame passes.
C5_FirstValidWins ==
    pc = "parse_done" =>
        LET ok == {k \in 1..Len(arg) : Passes(k)}
        IN IF ok = {} THEN ret = None
           ELSE LET first == CHOOSE k \in ok : \A j \in ok : k <= j
                IN /\ ret # None
                   /\ RecFields(ret[1]) = SentFields(arg[first].loc)

C5_Witness ==
    /\ pc = "parse_done"
    /\ Len(arg) = 2
    /\ ~Passes(1)
    /\ Passes(2)
    /\ ret # None
    /\ RecFields(ret[1]) = SentFields(arg[2].loc)

\* C6: header_len is 12 without and 16 with the subpackage flag, body_len is
\* the low 10 bits of msg_props, and a frame decodes to the fields sent
\* whether it carries the flag and the 4 subpackage bytes or not.
C6_HeaderLenAndBody ==
    (pc = "parse_compared" /\ Len(arg) = 1) =>
        LET d == arg[1]
        IN /\ header_len(Props(d)) = (IF d.sub THEN 16 ELSE 12)
           /\ body_len(Props(d)) = d.decl
           /\ (ret = None) <=> (aux = None)
           /\ ret # None =>
                 /\ RecFields(ret[1]) = SentFields(d.loc)
                 /\ RecFields(aux[1]) = RecFields(ret[1])
                 /\ aux[1].timestamp = ret[1].timestamp

C6_Witness ==
    /\ pc = "parse_compared"
    /\ Len(arg) = 1
    /\ ~arg[1].sub
    /\ ret # None
    /\ aux # None
    /\ RecFields(aux[1]) = SentFields(arg[1].loc)

\* C7: a single frame yields a record exactly when its checksum is right,
\* its payload has 12 bytes and header_len + body_len bytes, its msg_id is
\* 0x0200 and its body_len is at least 28.
C7_AcceptanceGate ==
    (pc = "parse_done" /\ Len(arg) = 1) =>
        /\ (ret # None) <=> Gate(unescape_jt(SubSeq(mid, 2, Len(mid) - 1)))
        /\ arg[1] = D0 => ret # None
        /\ arg[1] = [D0 EXCEPT !.decl = 27] => ret = None
        /\ arg[1] = [D0 EXCEPT !.badsum = TRUE] => ret = None
        /\ arg[1] = [D0 EXCEPT !.msg_id = 256] => ret = None

C7_Witness ==
    /\ pc = "parse_done"
    /\ arg = <<D0>>
    /\ ret # None
    /\ ret[1].lat = <<51, 441600>>
    /\ ret[1].timestamp = "2025-01-02 03:04:05"

(***************************************************************************)
(* Properties of run_server.                                               *)
(***************************************************************************)
FailedWrites ==
    {i \in 1..Len(calls) : calls[i].op = "write_found" /\ calls[i].outcome = "write error"}

CallsOf(op, c) == {i \in 1..Len(calls) : calls[i].op = op /\ calls[i].conn = c}

\* C4: an error of a read on a connection does not stop the server: only a
\* failure to bind or listen halts it.
C4_OnlyBindFailureHalts == pc = "halted" => fatal = "bind: OSError"

\* C8: a failed write of the record never ends the loop: after it the loop
\* is at the forward or at the close of that connection, or the connection
\* is closed, and no halt is due to it.
C8_PersistFailureNotFatal ==
    /\ pc = "halted" => fatal \in {"bind: OSError", "recv: ConnectionResetError"}
    /\ \A i \in FailedWrites :
          calls[i].conn \in open => (conn = calls[i].conn /\ pc \in {"forward", "close"})

C8_Witness ==
    /\ \E i \in FailedWrites : calls[i].conn = 1
    /\ conn = 2
    /\ open = {2}
    /\ pc = "recv"

Rank(p) ==
    CASE p = "bind" -> 0 [] p = "accept" -> 1 [] p = "recv" -> 2 [] p = "parse" -> 3
      [] p = "persist" -> 4 [] p = "forward" -> 5 [] p = "close" -> 6
      [] p = "halted" -> 7

\* C9: at most one connection is open or being processed at a time, a
\* connection is accepted only when the one before is closed, and the loop
\* moves Accepting -> Reading -> Parsing -> Done, closing the connection
\* with or without a record.
C9_StrictlySequential ==
    /\ [](/\ Cardinality(open) <= 1
          /\ open \subseteq {conn}
          /\ (pc \in {"recv", "parse", "persist", "forward", "close"}) <=> (open # {}))
    /\ [][/\ conn' # conn => (pc = "accept" /\ open = {} /\ pc' = "recv")
          /\ pc' # pc => \/ Rank(pc') > Rank(pc)
                         \/ (pc = "close" /\ pc' = "accept")
          /\ pc' = "accept" => pc \in {"bind", "accept", "close"}
          /\ (pc = "parse" /\ pc' # pc) =>
                pc' = (IF parsed' = None THEN "close" ELSE "persist")]_vars

C9_Witness ==
    /\ conn = 2
    /\ open = {2}
    /\ pc = "close"
    /\ parsed = None
    /\ raw # <<>>

\* C10: for every connection write_found is called at most once and
\* forward_to_flask at most once, both only with the record parsed for that
\* connection, forward_to_flask only when FLASK_FORWARD is set and after
\* write_found; without a record neither is called.
C10_AtMostOneHandoff ==
    \A c \in {calls[i].conn : i \in 1..Len(calls)} :
        LET W == CallsOf("write_found", c)
            F == CallsOf("forward_to_flask", c)
        IN /\ Cardinality(W) <= 1
           /\ Cardinality(F) <= 1
           /\ F # {} => /\ FLASK_FORWARD
                        /\ \E i \in W, j \in F : i < j /\ calls[i].rec = calls[j].rec
           /\ c = conn => /\ parsed # None
                          /\ \A i \in W \cup F : calls[i].rec = parsed[1]

C10_Witness ==
    /\ \E j \in 1..Len(calls) :
          /\ calls[j].op = "forward_to_flask"
          /\ calls[j].outcome = "forward failed"
          /\ calls[j].conn = 1
    /\ conn = 2
    /\ pc = "close"
    /\ parsed = None
    /\ CallsOf("write_found", 2) = {}

====
